---- MODULE Spec2Model ----
(***************************************************************************)
(* A model of the BLE GATT server of src/server.py: the object tree that   *)
(* GetManagedObjects exposes, the subscription state of the notify         *)
(* characteristic, and the command protocol carried by WriteValue on the   *)
(* writable characteristic (SCAN_WIFI, credential JSON), with the external *)
(* tools (iwlist, nmcli) as nondeterministic inputs of the handler.        *)
(*                                                                         *)
(* Python str values are sequences of Unicode code points, bytes values    *)
(* are sequences of 0..255, D-Bus object paths are sequences of segments.  *)
(***************************************************************************)
EXTENDS Integers, Sequences, FiniteSets, TLC

\* ---------------------------------------------------------------- constants

GATT_SERVICE_IFACE == "org.bluez.GattService1"
GATT_CHRC_IFACE == "org.bluez.GattCharacteristic1"
DBUS_PROP_IFACE == "org.freedesktop.DBus.Properties"

\* Application.PATH_BASE = '/org/bluez/example'
PATH_BASE == <<"org", "bluez", "example">>

SERVICE_UUID == "12345678-1234-5678-1234-56789abcdef1"
CHAR_UUID == "12345678-1234-5678-1234-56789abcdef0"
NOTIFY_UUID == "12345678-1234-5678-1234-56789abcdef2"

\* ------------------------------------------------ string literals of the code

\* 'SCAN_WIFI'
SCAN_WIFI ==
    <<83, 67, 65, 78, 95, 87, 73, 70, 73>>
\* 'No ESSIDs found'
NO_ESSIDS ==
    <<78, 111, 32, 69, 83, 83, 73, 68, 115, 32, 102, 111, 117, 110, 100>>
\* 'Error: '
ERROR_PREFIX ==
    <<69, 114, 114, 111, 114, 58, 32>>
\* '(U+2705) Connected to Wi-Fi'
MSG_CONNECTED ==
    <<9989, 32, 67, 111, 110, 110, 101, 99, 116, 101, 100, 32, 116, 111, 32, 87, 105, 45, 70, 105>>
\* '(U+274C) Failed to connect'
MSG_FAILED ==
    <<10060, 32, 70, 97, 105, 108, 101, 100, 32, 116, 111, 32, 99, 111, 110, 110, 101, 99, 116>>
\* "sudo iwlist scan | grep 'ESSID'"
STATUS_COMMAND ==
    <<115, 117, 100, 111, 32, 105, 119, 108, 105, 115, 116, 32, 115, 99, 97, 110, 32, 124, 32, 103, 114, 101, 112, 32, 39, 69, 83, 83, 73, 68, 39>>
\* "sudo nmcli device wifi connect '"
CONNECT_PREFIX ==
    <<115, 117, 100, 111, 32, 110, 109, 99, 108, 105, 32, 100, 101, 118, 105, 99, 101, 32, 119, 105, 102, 105, 32, 99, 111, 110, 110, 101, 99, 116, 32, 39>>
\* "' password '"
CONNECT_MIDDLE ==
    <<39, 32, 112, 97, 115, 115, 119, 111, 114, 100, 32, 39>>
\* "'"
CONNECT_SUFFIX ==
    <<39>>
\* 'sudo iwlist wlan0 scan'
SCAN_COMMAND ==
    <<115, 117, 100, 111, 32, 105, 119, 108, 105, 115, 116, 32, 119, 108, 97, 110, 48, 32, 115, 99, 97, 110>>
\* 'Cell '
CELL_LIT ==
    <<67, 101, 108, 108, 32>>
\* ' - Address: '
ADDRESS_LIT ==
    <<32, 45, 32, 65, 100, 100, 114, 101, 115, 115, 58, 32>>
\* 'ESSID:"'
ESSID_LIT ==
    <<69, 83, 83, 73, 68, 58, 34>>
\* 'ssid'
KEY_SSID ==
    <<115, 115, 105, 100>>
\* 'password'
KEY_PASSWORD ==
    <<112, 97, 115, 115, 119, 111, 114, 100>>
\* 'address'
KEY_ADDRESS ==
    <<97, 100, 100, 114, 101, 115, 115>>
\* 'essid'
KEY_ESSID ==
    <<101, 115, 115, 105, 100>>
\* 'null'
LIT_null ==
    <<110, 117, 108, 108>>
\* 'true'
LIT_true ==
    <<116, 114, 117, 101>>
\* 'false'
LIT_false ==
    <<102, 97, 108, 115, 101>>
\* 'None'
LIT_None ==
    <<78, 111, 110, 101>>
\* 'True'
LIT_True ==
    <<84, 114, 117, 101>>
\* 'False'
LIT_False ==
    <<70, 97, 108, 115, 101>>
\* 'NaN'
LIT_NaN ==
    <<78, 97, 78>>
\* 'Infinity'
LIT_Infinity ==
    <<73, 110, 102, 105, 110, 105, 116, 121>>

\* ------------------------------------------------ bytes a client writes

\* UTF-8 of MSG_CONNECTED
MSG_CONNECTED_BYTES ==
    <<226, 156, 133, 32, 67, 111, 110, 110, 101, 99, 116, 101, 100, 32, 116, 111, 32, 87, 105, 45, 70, 105>>
\* UTF-8 of MSG_FAILED
MSG_FAILED_BYTES ==
    <<226, 157, 140, 32, 70, 97, 105, 108, 101, 100, 32, 116, 111, 32, 99, 111, 110, 110, 101, 99, 116>>
\* b'SCAN_WIFI'
W_SCAN ==
    <<83, 67, 65, 78, 95, 87, 73, 70, 73>>
\* b'{"ssid":"Home","password":"secret"}'
W_CRED ==
    <<123, 34, 115, 115, 105, 100, 34, 58, 34, 72, 111, 109, 101, 34, 44, 34, 112, 97, 115, 115, 119, 111, 114, 100, 34, 58, 34, 115, 101, 99, 114, 101, 116, 34, 125>>
\* b'{"ssid": "Caf\xc3\xa9", "password": "p w"}'
W_CRED_UTF8 ==
    <<123, 34, 115, 115, 105, 100, 34, 58, 32, 34, 67, 97, 102, 195, 169, 34, 44, 32, 34, 112, 97, 115, 115, 119, 111, 114, 100, 34, 58, 32, 34, 112, 32, 119, 34, 125>>
\* b'{"ssid":7,"password":true}'
W_CRED_NUM ==
    <<123, 34, 115, 115, 105, 100, 34, 58, 55, 44, 34, 112, 97, 115, 115, 119, 111, 114, 100, 34, 58, 116, 114, 117, 101, 125>>
\* b'S\xff\xfe'
W_BAD_UTF8 ==
    <<83, 255, 254>>
\* b'\xe2\x9c'
W_TRUNC_UTF8 ==
    <<226, 156>>
\* b'not json'
W_NOT_JSON ==
    <<110, 111, 116, 32, 106, 115, 111, 110>>
\* b'{"ssid":"x"}'
W_NO_PASSWORD ==
    <<123, 34, 115, 115, 105, 100, 34, 58, 34, 120, 34, 125>>
\* b'{"ssid":"","password":"p"}'
W_EMPTY_SSID ==
    <<123, 34, 115, 115, 105, 100, 34, 58, 34, 34, 44, 34, 112, 97, 115, 115, 119, 111, 114, 100, 34, 58, 34, 112, 34, 125>>
\* b'{"password":null,"ssid":"x"}'
W_NULL_PASSWORD ==
    <<123, 34, 112, 97, 115, 115, 119, 111, 114, 100, 34, 58, 110, 117, 108, 108, 44, 34, 115, 115, 105, 100, 34, 58, 34, 120, 34, 125>>
\* b'[1]'
W_ARRAY ==
    <<91, 49, 93>>
\* b'"SCAN_WIFI"'
W_JSON_STRING ==
    <<34, 83, 67, 65, 78, 95, 87, 73, 70, 73, 34>>
\* b'{"ssid":"x","password":"p"} x'
W_TRAILING ==
    <<123, 34, 115, 115, 105, 100, 34, 58, 34, 120, 34, 44, 34, 112, 97, 115, 115, 119, 111, 114, 100, 34, 58, 34, 112, 34, 125, 32, 120>>
\* b''
W_EMPTY ==
    <<>>

\* ------------------------------------------------------- str and bytes (UTF-8)

\* One code point as UTF-8, as str.encode() writes it.
Utf8EncodeChar(cp) ==
    IF cp < 128 THEN <<cp>>
    ELSE IF cp < 2048 THEN <<192 + (cp \div 64), 128 + (cp % 64)>>
    ELSE IF cp < 65536
         THEN <<224 + (cp \div 4096), 128 + ((cp \div 64) % 64), 128 + (cp % 64)>>
    ELSE <<240 + (cp \div 262144), 128 + ((cp \div 4096) % 64),
           128 + ((cp \div 64) % 64), 128 + (cp % 64)>>

\* message.encode(): the UTF-8 bytes of a str (no surrogates occur here), the
\* characters' encodings concatenated (here by halves).
RECURSIVE Encode(_)
Encode(text) ==
    IF text = <<>> THEN <<>>
    ELSE IF Len(text) = 1 THEN Utf8EncodeChar(text[1])
    ELSE LET h == Len(text) \div 2 IN
         Encode(SubSeq(text, 1, h)) \o Encode(SubSeq(text, h + 1, Len(text)))

IsCont(b, i) == i <= Len(b) /\ b[i] >= 128 /\ b[i] <= 191

DecodeError == [ok |-> FALSE, text |-> <<>>]

\* bytes(value).decode('utf-8'), strict: ok = FALSE stands for UnicodeDecodeError
\* (a stray or missing continuation byte, an overlong form, a surrogate, a code
\* point above U+10FFFF).
RECURSIVE DecodeFrom(_, _, _)
DecodeFrom(b, i, acc) ==
    IF i > Len(b) THEN [ok |-> TRUE, text |-> acc]
    ELSE LET b0 == b[i] IN
        IF b0 < 128 THEN DecodeFrom(b, i + 1, Append(acc, b0))
        ELSE IF b0 >= 194 /\ b0 <= 223 /\ IsCont(b, i + 1)
        THEN DecodeFrom(b, i + 2, Append(acc, (b0 - 192) * 64 + (b[i + 1] - 128)))
        ELSE IF /\ b0 >= 224 /\ b0 <= 239
                /\ IsCont(b, i + 1) /\ IsCont(b, i + 2)
                /\ (b0 = 224 => b[i + 1] >= 160)
                /\ (b0 = 237 => b[i + 1] <= 159)
        THEN DecodeFrom(b, i + 3,
                 Append(acc, (b0 - 224) * 4096 + (b[i + 1] - 128) * 64 + (b[i + 2] - 128)))
        ELSE IF /\ b0 >= 240 /\ b0 <= 244
                /\ IsCont(b, i + 1) /\ IsCont(b, i + 2) /\ IsCont(b, i + 3)
                /\ (b0 = 240 => b[i + 1] >= 144)
                /\ (b0 = 244 => b[i + 1] <= 143)
        THEN DecodeFrom(b, i + 4,
                 Append(acc, (b0 - 240) * 262144 + (b[i + 1] - 128) * 4096
                             + (b[i + 2] - 128) * 64 + (b[i + 3] - 128)))
        ELSE DecodeError

Decode(b) == DecodeFrom(b, 1, <<>>)

\* The characters str.strip() removes (str.isspace()).
WHITESPACE ==
    {9, 10, 11, 12, 13, 28, 29, 30, 31, 32, 133, 160, 5760, 8232, 8233, 8239, 8287, 12288}
    \cup (8192 .. 8202)

RECURSIVE LStrip(_)
LStrip(s) == IF s # <<>> /\ Head(s) \in WHITESPACE THEN LStrip(Tail(s)) ELSE s

RECURSIVE RStrip(_)
RStrip(s) ==
    IF s # <<>> /\ s[Len(s)] \in WHITESPACE THEN RStrip(SubSeq(s, 1, Len(s) - 1)) ELSE s

\* str.strip()
Strip(s) == RStrip(LStrip(s))

\* s[i:].startswith(lit), i counted from 1
StartsWith(s, i, lit) ==
    i + Len(lit) - 1 <= Len(s) /\ \A k \in 1 .. Len(lit) : s[i + k - 1] = lit[k]

\* A construct of the Python library that this model does not cover; no input of
\* the model reaches it (evaluating it stops the check).
NotModelled(what) == CHOOSE v \in {} : v = what

DIGITS == 48 .. 57

\* str(n) of an int
RECURSIVE NatToText(_)
NatToText(n) ==
    IF n < 10 THEN <<48 + n>> ELSE Append(NatToText(n \div 10), 48 + (n % 10))

IntToText(n) == IF n < 0 THEN <<45>> \o NatToText(0 - n) ELSE NatToText(n)

\* ------------------------------------------------------------------ json

\* Python values that json.loads returns. items: the elements of a list, or the
\* <<key, value>> pairs of a dict in insertion order.
JNone == [t |-> "NoneType", s |-> <<>>, n |-> 0, items |-> <<>>]
JStr(text) == [t |-> "str", s |-> text, n |-> 0, items |-> <<>>]
JInt(k) == [t |-> "int", s |-> <<>>, n |-> k, items |-> <<>>]
JBool(b) == [t |-> "bool", s |-> <<>>, n |-> IF b THEN 1 ELSE 0, items |-> <<>>]
JList(xs) == [t |-> "list", s |-> <<>>, n |-> 0, items |-> xs]
JDict(kvs) == [t |-> "dict", s |-> <<>>, n |-> 0, items |-> kvs]

\* A failed scan: json.JSONDecodeError
JFail == [ok |-> FALSE, v |-> JNone, i |-> 0]
JOk(val, next) == [ok |-> TRUE, v |-> val, i |-> next]

JSON_WS == {32, 9, 10, 13}

RECURSIVE SkipWs(_, _)
SkipWs(s, i) == IF i <= Len(s) /\ s[i] \in JSON_WS THEN SkipWs(s, i + 1) ELSE i

\* The character an escape \c stands for (json.decoder BACKSLASH).
Unescape(c) ==
    CASE c = 34 -> 34
      [] c = 92 -> 92
      [] c = 47 -> 47
      [] c = 98 -> 8
      [] c = 102 -> 12
      [] c = 110 -> 10
      [] c = 114 -> 13
      [] c = 116 -> 9

\* json.decoder.py_scanstring, strict: s[i] is the character after the opening
\* quote. A control character or an unknown escape is a JSONDecodeError.
RECURSIVE ScanString(_, _, _)
ScanString(s, i, acc) ==
    IF i > Len(s) THEN JFail
    ELSE IF s[i] = 34 THEN JOk(JStr(acc), i + 1)
    ELSE IF s[i] = 92
    THEN IF i + 1 > Len(s) THEN JFail
         ELSE IF s[i + 1] = 117 THEN NotModelled("\\uXXXX escape")
         ELSE IF s[i + 1] \in {34, 92, 47, 98, 102, 110, 114, 116}
         THEN ScanString(s, i + 2, Append(acc, Unescape(s[i + 1])))
         ELSE JFail
    ELSE IF s[i] < 32 THEN JFail
    ELSE ScanString(s, i + 1, Append(acc, s[i]))

\* The end of the run of digits that starts at i (i itself when there is none).
RECURSIVE DigitsEnd(_, _)
DigitsEnd(s, i) == IF i <= Len(s) /\ s[i] \in DIGITS THEN DigitsEnd(s, i + 1) ELSE i

RECURSIVE TextToNat(_)
TextToNat(d) ==
    IF d = <<>> THEN 0 ELSE TextToNat(SubSeq(d, 1, Len(d) - 1)) * 10 + (d[Len(d)] - 48)

\* json.scanner NUMBER_RE at i: (-?(?:0|[1-9]\d*))(\.\d+)?([eE][-+]?\d+)?
\* A fraction or an exponent makes a float, which the model does not cover.
ScanNumber(s, i) ==
    LET neg == i <= Len(s) /\ s[i] = 45
        j == IF neg THEN i + 1 ELSE i
        k == IF j <= Len(s) /\ s[j] = 48 THEN j + 1 ELSE DigitsEnd(s, j)
        frac == k + 1 <= Len(s) /\ s[k] = 46 /\ s[k + 1] \in DIGITS
        e == IF k + 1 <= Len(s) /\ s[k] \in {69, 101} /\ s[k + 1] \in {43, 45}
             THEN k + 2 ELSE k + 1
        expo == k <= Len(s) /\ s[k] \in {69, 101} /\ e <= Len(s) /\ s[e] \in DIGITS
    IN  IF k = j THEN JFail
        ELSE IF frac \/ expo THEN NotModelled("float")
        ELSE JOk(JInt((IF neg THEN -1 ELSE 1) * TextToNat(SubSeq(s, j, k - 1))), k)

\* dict(pairs): a repeated key keeps its first position and takes the last value.
RECURSIVE DictSet(_, _, _)
DictSet(kvs, key, val) ==
    IF kvs = <<>> THEN <<<<key, val>>>>
    ELSE IF Head(kvs)[1] = key THEN <<<<key, val>>>> \o Tail(kvs)
    ELSE <<Head(kvs)>> \o DictSet(Tail(kvs), key, val)

RECURSIVE ScanOnce(_, _)
RECURSIVE ScanMembers(_, _, _)
RECURSIVE ScanElements(_, _, _)

\* json.decoder.JSONObject after a key's opening quote at i - 1: key, ':', value,
\* then '}' or ',' and the next key.
ScanMembers(s, i, acc) ==
    LET key == ScanString(s, i, <<>>) IN
    IF ~key.ok THEN JFail
    ELSE LET c == SkipWs(s, key.i) IN
    IF ~(c <= Len(s) /\ s[c] = 58) THEN JFail
    ELSE LET val == ScanOnce(s, SkipWs(s, c + 1)) IN
    IF ~val.ok THEN JFail
    ELSE LET d == SkipWs(s, val.i)
             pairs == DictSet(acc, key.v.s, val.v) IN
    IF d > Len(s) THEN JFail
    ELSE IF s[d] = 125 THEN JOk(JDict(pairs), d + 1)
    ELSE IF s[d] # 44 THEN JFail
    ELSE LET q == SkipWs(s, d + 1) IN
    IF q <= Len(s) /\ s[q] = 34 THEN ScanMembers(s, q + 1, pairs) ELSE JFail

\* json.decoder.JSONArray after the first element's start at i.
ScanElements(s, i, acc) ==
    LET val == ScanOnce(s, i) IN
    IF ~val.ok THEN JFail
    ELSE LET d == SkipWs(s, val.i)
             xs == Append(acc, val.v) IN
    IF d > Len(s) THEN JFail
    ELSE IF s[d] = 93 THEN JOk(JList(xs), d + 1)
    ELSE IF s[d] # 44 THEN JFail
    ELSE ScanElements(s, SkipWs(s, d + 1), xs)

\* json.scanner.py_make_scanner _scan_once: the value that starts at s[i].
ScanOnce(s, i) ==
    IF i > Len(s) THEN JFail
    ELSE IF s[i] = 34 THEN ScanString(s, i + 1, <<>>)
    ELSE IF s[i] = 123
    THEN LET q == SkipWs(s, i + 1) IN
         IF q > Len(s) THEN JFail
         ELSE IF s[q] = 125 THEN JOk(JDict(<<>>), q + 1)
         ELSE IF s[q] = 34 THEN ScanMembers(s, q + 1, <<>>)
         ELSE JFail
    ELSE IF s[i] = 91
    THEN LET q == SkipWs(s, i + 1) IN
         IF q <= Len(s) /\ s[q] = 93 THEN JOk(JList(<<>>), q + 1)
         ELSE ScanElements(s, q, <<>>)
    ELSE IF StartsWith(s, i, LIT_null) THEN JOk(JNone, i + 4)
    ELSE IF StartsWith(s, i, LIT_true) THEN JOk(JBool(TRUE), i + 4)
    ELSE IF StartsWith(s, i, LIT_false) THEN JOk(JBool(FALSE), i + 5)
    ELSE IF \/ StartsWith(s, i, LIT_NaN) \/ StartsWith(s, i, LIT_Infinity)
            \/ (s[i] = 45 /\ StartsWith(s, i + 1, LIT_Infinity))
    THEN NotModelled("NaN, Infinity")
    ELSE ScanNumber(s, i)

\* json.loads(text): the value, or ok = FALSE for json.JSONDecodeError
\* (no value, or extra data after it).
JsonLoads(text) ==
    LET r == ScanOnce(text, SkipWs(text, 1)) IN
    IF ~r.ok THEN JFail
    ELSE IF SkipWs(text, r.i) # Len(text) + 1 THEN JFail
    ELSE r

\* hasattr(v, 'get'): only a dict has the method that WriteValue calls.
HasGet(v) == v.t = "dict"

\* dict.get(key): the value, or None
RECURSIVE DictGet(_, _)
DictGet(kvs, key) ==
    IF kvs = <<>> THEN JNone
    ELSE IF Head(kvs)[1] = key THEN Head(kvs)[2]
    ELSE DictGet(Tail(kvs), key)

\* bool(v)
Truthy(v) ==
    CASE v.t = "NoneType" -> FALSE
      [] v.t = "str" -> v.s # <<>>
      [] v.t \in {"int", "bool"} -> v.n # 0
      [] v.t \in {"list", "dict"} -> v.items # <<>>

\* f'{v}': str(v) of a scalar (the repr of a list or a dict is not covered).
PyStr(v) ==
    CASE v.t = "str" -> v.s
      [] v.t = "int" -> IntToText(v.n)
      [] v.t = "bool" -> IF v.n = 1 THEN LIT_True ELSE LIT_False
      [] v.t = "NoneType" -> LIT_None

HEX == <<48, 49, 50, 51, 52, 53, 54, 55, 56, 57, 97, 98, 99, 100, 101, 102>>

\* '\\u{0:04x}'.format(n)
UEscape(n) ==
    <<92, 117, HEX[((n \div 4096) % 16) + 1], HEX[((n \div 256) % 16) + 1],
      HEX[((n \div 16) % 16) + 1], HEX[(n % 16) + 1]>>

\* json.encoder.py_encode_basestring_ascii for one character
EscapeChar(c) ==
    CASE c = 34 -> <<92, 34>>
      [] c = 92 -> <<92, 92>>
      [] c = 10 -> <<92, 110>>
      [] c = 13 -> <<92, 114>>
      [] c = 9 -> <<92, 116>>
      [] c = 12 -> <<92, 102>>
      [] c = 8 -> <<92, 98>>
      [] c >= 32 /\ c <= 126 /\ c # 34 /\ c # 92 -> <<c>>
      [] c >= 65536 ->
            UEscape(55296 + (((c - 65536) \div 1024) % 1024))
            \o UEscape(56320 + ((c - 65536) % 1024))
      [] OTHER -> UEscape(c)

\* The characters' escapes concatenated (here by halves)
RECURSIVE EscapeText(_)
EscapeText(s) ==
    IF s = <<>> THEN <<>>
    ELSE IF Len(s) = 1 THEN EscapeChar(s[1])
    ELSE LET h == Len(s) \div 2 IN
         EscapeText(SubSeq(s, 1, h)) \o EscapeText(SubSeq(s, h + 1, Len(s)))

\* json.dumps of a str
DumpsStr(s) == <<34>> \o EscapeText(s) \o <<34>>

\* json.dumps of one {"address": ..., "essid": ...} dict
DumpsNetwork(net) ==
    <<123>> \o DumpsStr(KEY_ADDRESS) \o <<58, 32>> \o DumpsStr(net.address)
    \o <<44, 32>> \o DumpsStr(KEY_ESSID) \o <<58, 32>> \o DumpsStr(net.essid) \o <<125>>

RECURSIVE DumpsItems(_)
DumpsItems(nets) ==
    IF nets = <<>> THEN <<>>
    ELSE IF Len(nets) = 1 THEN DumpsNetwork(nets[1])
    ELSE DumpsNetwork(nets[1]) \o <<44, 32>> \o DumpsItems(Tail(nets))

\* json.dumps(networks) of the list scan_networks returns
JsonDumps(nets) == <<91>> \o DumpsItems(nets) \o <<93>>

\* ------------------------------------------------------------ scan_networks

\* [\da-fA-F:] (\d taken as the ASCII digits)
HEXCOLON == DIGITS \cup (97 .. 102) \cup (65 .. 70) \cup {58}

ADDRESS_LEN == 17

AllIn(s, from, to, class) == \A k \in from .. to : s[k] \in class

NoMatch == [ok |-> FALSE, group |-> <<>>, end |-> 0]

\* cell_re = r'Cell \d+ - Address: ([\da-fA-F:]{17})' matched at position i:
\* the group and the position after the match.
CellMatchAt(s, i) ==
    IF ~StartsWith(s, i, CELL_LIT) THEN NoMatch
    ELSE LET d == i + Len(CELL_LIT)
             e == DigitsEnd(s, d)
             a == e + Len(ADDRESS_LIT) IN
         IF /\ e > d
            /\ StartsWith(s, e, ADDRESS_LIT)
            /\ a + ADDRESS_LEN - 1 <= Len(s)
            /\ AllIn(s, a, a + ADDRESS_LEN - 1, HEXCOLON)
         THEN [ok |-> TRUE, group |-> SubSeq(s, a, a + ADDRESS_LEN - 1),
               end |-> a + ADDRESS_LEN]
         ELSE NoMatch

\* The least element of a nonempty set of positions
Least(S) == CHOOSE j \in S : \A k \in S : j <= k

\* The first closing quote at or after j with no newline before it (0: none):
\* (.*?)" takes the shortest run of characters other than newline.
ClosingQuote(s, j) ==
    LET stops == {k \in j .. Len(s) : s[k] \in {10, 34}} IN
    IF stops = {} \/ s[Least(stops)] = 10 THEN 0 ELSE Least(stops)

\* essid_re = r'ESSID:"(.*?)"' matched at position i.
EssidMatchAt(s, i) ==
    IF ~StartsWith(s, i, ESSID_LIT) THEN NoMatch
    ELSE LET b == i + Len(ESSID_LIT)
             q == ClosingQuote(s, b) IN
         IF q = 0 THEN NoMatch
         ELSE [ok |-> TRUE, group |-> SubSeq(s, b, q - 1), end |-> q + 1]

\* cell_re.findall(output): the groups of the non-overlapping matches, left to
\* right; each search starts where the match before it ended.
RECURSIVE CellFindAll(_, _, _)
CellFindAll(s, i, acc) ==
    LET starts == {j \in i .. Len(s) : CellMatchAt(s, j).ok} IN
    IF starts = {} THEN acc
    ELSE LET m == CellMatchAt(s, Least(starts)) IN
         CellFindAll(s, m.end, Append(acc, m.group))

\* essid_re.findall(output)
RECURSIVE EssidFindAll(_, _, _)
EssidFindAll(s, i, acc) ==
    LET starts == {j \in i .. Len(s) : EssidMatchAt(s, j).ok} IN
    IF starts = {} THEN acc
    ELSE LET m == EssidMatchAt(s, Least(starts)) IN
         EssidFindAll(s, m.end, Append(acc, m.group))

Min(a, b) == IF a < b THEN a ELSE b

\* zip(addresses, essids)
Zip(addresses, essids) ==
    [k \in 1 .. Min(Len(addresses), Len(essids)) |-> <<addresses[k], essids[k]>>]

\* A faulty loop: the test against seen_essids is missing.
RECURSIVE UniqueNetworks_no_seen(_, _, _, _)
UniqueNetworks_no_seen(pairs, k, seen_essids, unique_networks) ==
    IF k > Len(pairs) THEN unique_networks
    ELSE LET addr == pairs[k][1]
             essid == pairs[k][2] IN
         IF essid # <<>>
         THEN UniqueNetworks_no_seen(pairs, k + 1, seen_essids \cup {essid},
                  Append(unique_networks, [address |-> addr, essid |-> essid]))
         ELSE UniqueNetworks_no_seen(pairs, k + 1, seen_essids, unique_networks)

\* The loop of scan_networks over the pairs from position k on: a pair whose essid
\* is new and not empty is appended and its essid remembered.
RECURSIVE UniqueNetworks(_, _, _, _)
UniqueNetworks(pairs, k, seen_essids, unique_networks) ==
    IF k > Len(pairs) THEN unique_networks
    ELSE LET addr == pairs[k][1]
             essid == pairs[k][2] IN
         IF essid \notin seen_essids /\ essid # <<>>
         THEN UniqueNetworks(pairs, k + 1, seen_essids \cup {essid},
                  Append(unique_networks, [address |-> addr, essid |-> essid]))
         ELSE UniqueNetworks(pairs, k + 1, seen_essids, unique_networks)

\* The parsing half of scan_networks: from the tool's stdout to the list returned.
ParseScan(output) ==
    LET addresses == CellFindAll(output, 1, <<>>)
        essids == EssidFindAll(output, 1, <<>>)
    IN  UniqueNetworks(Zip(addresses, essids), 1, {}, <<>>)

\* scan_networks(): run is the outcome of subprocess.run(['sudo', 'iwlist',
\* 'wlan0', 'scan'], check=True). An exception of subprocess.run itself is not
\* caught here; a nonzero return code raises CalledProcessError, which is
\* caught and gives the empty list.
scan_networks(run) ==
    IF run.raised # "" THEN [raised |-> run.raised, networks |-> <<>>]
    ELSE IF run.returncode # 0 THEN [raised |-> "", networks |-> <<>>]
    ELSE [raised |-> "", networks |-> ParseScan(run.stdout)]

\* ------------------------------------------------------------ the object tree

VARIABLES
    services,       \* Application.services: the services with their characteristics
    char_value,     \* MyCharacteristic.value: the last stored written bytes
    notifying,      \* NotifyCharacteristic.notifying
    notify_value,   \* NotifyCharacteristic.value
    last_sub,       \* history: the last of StartNotify/StopNotify called, if any
    call,           \* history: the last host call, what it returned and what it did
    startup,        \* main(): its position and the two registrations
    inbox,          \* the host calls delivered to the process and not yet handled
    running,        \* the WriteValue handler that waits in subprocess.run, if any
    delivered,      \* history: how many host calls were delivered
    log             \* history: what the handlers did, each event with its call's number

\* The state of the objects, written by the handlers
objvars == <<services, char_value, notifying, notify_value, last_sub, call>>

\* The state of the event loop
loopvars == <<inbox, running, delivered, log>>

vars == <<services, char_value, notifying, notify_value, last_sub, call, startup,
          inbox, running, delivered, log>>

\* MyCharacteristic.__init__: the fixed attributes (value is char_value)
MyCharacteristic(index, uuid, flags, service_path) ==
    [kind |-> "MyCharacteristic", index |-> index, uuid |-> uuid, flags |-> flags,
     service |-> service_path,
     path |-> Append(service_path, "char" \o ToString(index))]

\* A faulty NotifyCharacteristic.__init__: the path is built from the
\* application's base path, not from the service's.
NotifyCharacteristic_detached(index, uuid, service_path) ==
    [kind |-> "NotifyCharacteristic", index |-> index, uuid |-> uuid,
     flags |-> <<"notify">>, service |-> service_path,
     path |-> Append(PATH_BASE, "char_notify" \o ToString(index))]

\* NotifyCharacteristic.__init__: the fixed attributes (notifying and value are
\* the variables notifying and notify_value)
NotifyCharacteristic(index, uuid, service_path) ==
    [kind |-> "NotifyCharacteristic", index |-> index, uuid |-> uuid,
     flags |-> <<"notify">>, service |-> service_path,
     path |-> Append(service_path, "char_notify" \o ToString(index))]

\* MyService.add_characteristic
add_characteristic(svc, ch) ==
    [svc EXCEPT !.characteristics = Append(@, ch)]

\* MyService.__init__: the service with its two characteristics, in this order
MyService(index) ==
    LET path == Append(PATH_BASE, "service" \o ToString(index))
        svc == [index |-> index, path |-> path, uuid |-> SERVICE_UUID,
                primary |-> TRUE, characteristics |-> <<>>]
        with_char == add_characteristic(svc,
            MyCharacteristic(0, CHAR_UUID, <<"read", "write-without-response">>, path))
    IN  add_characteristic(with_char, NotifyCharacteristic(1, NOTIFY_UUID, path))

\* Application.__init__: self.services after add_service(MyService(bus, 0))
Application == <<MyService(0)>>

\* MyService.get_properties
ServiceProperties(svc) ==
    [interface |-> GATT_SERVICE_IFACE,
     properties |-> [UUID |-> svc.uuid, Primary |-> svc.primary,
                     Characteristics |->
                         [k \in 1 .. Len(svc.characteristics) |->
                             svc.characteristics[k].path]]]

\* NotifyCharacteristic.get_properties, nv the characteristic's value
NotifyProperties(ch, nv) ==
    [interface |-> GATT_CHRC_IFACE,
     properties |-> [UUID |-> ch.uuid, Service |-> ch.service, Flags |-> ch.flags,
                     Value |-> nv]]

\* MyCharacteristic.get_properties
CharProperties(ch) ==
    [interface |-> GATT_CHRC_IFACE,
     properties |-> [UUID |-> ch.uuid, Service |-> ch.service, Flags |-> ch.flags]]

\* ch.get_properties() by the class of ch
get_properties(ch, nv) ==
    IF ch.kind = "NotifyCharacteristic" THEN NotifyProperties(ch, nv)
    ELSE CharProperties(ch)

\* The inner loop of GetManagedObjects: mapped[ch.get_path()] = ch.get_properties()
RECURSIVE MapCharacteristics(_, _, _, _)
MapCharacteristics(mapped, chs, k, nv) ==
    IF k > Len(chs) THEN mapped
    ELSE MapCharacteristics(DictSet(mapped, chs[k].path, get_properties(chs[k], nv)),
                            chs, k + 1, nv)

\* The outer loop of GetManagedObjects over self.services from position k on
RECURSIVE MapServices(_, _, _, _)
MapServices(mapped, svcs, k, nv) ==
    IF k > Len(svcs) THEN mapped
    ELSE MapServices(
            MapCharacteristics(
                DictSet(mapped, svcs[k].path, ServiceProperties(svcs[k])),
                svcs[k].characteristics, 1, nv),
            svcs, k + 1, nv)

\* A faulty GetManagedObjects: the loop over a service's characteristics is
\* missing.
ManagedObjects_services_only(svcs, nv) ==
    [k \in 1 .. Len(svcs) |-> <<svcs[k].path, ServiceProperties(svcs[k])>>]

\* A faulty GetManagedObjects: it returns the maps as they were at construction.
ManagedObjects_snapshot(svcs, nv) == MapServices(<<>>, svcs, 1, <<>>)

\* Application.GetManagedObjects: the dict as its <<path, properties>> items
ManagedObjects(svcs, nv) == MapServices(<<>>, svcs, 1, nv)

\* ------------------------------------------------- notify and the write handler

\* A handler runs on the single dispatch thread; w is what it reads and writes
\* while it runs: NotifyCharacteristic's notifying and value, and the trace of
\* what it did (tools run, notifications pushed, signals emitted).
World(sub, nv) == [notifying |-> sub, value |-> nv, trace |-> <<>>]

\* The PropertiesChanged signal (interface, changed, invalidated)
PropertiesChanged(interface, changed, invalidated) ==
    [interface |-> interface, changed |-> changed, invalidated |-> invalidated]

Event(ev, data, sub, before, after, signals) ==
    [ev |-> ev, data |-> data, sub |-> sub, before |-> before, after |-> after,
     signals |-> signals]

\* subprocess.run(command, ...) called: the trace records the command
Ran(w, command) ==
    [w EXCEPT !.trace =
        Append(@, Event("run", command, w.notifying, w.value, w.value, <<>>))]

\* A faulty send_notification: the test of self.notifying is missing.
send_notification_unguarded(w, message) ==
    LET bytes == Encode(message) IN
    [w EXCEPT !.value = bytes,
              !.trace = Append(@, Event("push", message, w.notifying, w.value, bytes,
                  <<PropertiesChanged(GATT_CHRC_IFACE, [Value |-> bytes], <<>>)>>))]

\* A faulty send_notification: a message equal to the current value is dropped.
send_notification_dedup(w, message) ==
    IF ~w.notifying \/ Encode(message) = w.value
    THEN [w EXCEPT !.trace =
            Append(@, Event("push", message, w.notifying, w.value, w.value, <<>>))]
    ELSE LET bytes == Encode(message) IN
         [w EXCEPT !.value = bytes,
                   !.trace = Append(@, Event("push", message, w.notifying, w.value, bytes,
                       <<PropertiesChanged(GATT_CHRC_IFACE, [Value |-> bytes], <<>>)>>))]

\* NotifyCharacteristic.send_notification(message)
send_notification(w, message) ==
    IF ~w.notifying
    THEN [w EXCEPT !.trace =
            Append(@, Event("push", message, w.notifying, w.value, w.value, <<>>))]
    ELSE LET bytes == Encode(message) IN
         [w EXCEPT !.value = bytes,
                   !.trace = Append(@, Event("push", message, w.notifying, w.value, bytes,
                       <<PropertiesChanged(GATT_CHRC_IFACE, [Value |-> bytes], <<>>)>>))]

\* scan_networks() called from the handler: the tool is run, then its outcome
\* gives the list.
RunScan(w, run) ==
    LET r == scan_networks(run)
    IN  [w |-> Ran(w, SCAN_COMMAND), raised |-> r.raised, networks |-> r.networks]

\* A faulty scan branch: the test for an empty list is missing.
ScanBranch_push_empty(w, env) ==
    LET r == RunScan(w, env.scan) IN
    IF r.raised # "" THEN r.w
    ELSE send_notification(r.w, JsonDumps(r.networks))

\* WriteValue, text == 'SCAN_WIFI': an exception out of scan_networks, and the
\* one raised for an empty list, end the inner try, whose handler only logs;
\* otherwise the list is pushed as JSON.
ScanBranch(w, env) ==
    LET r == RunScan(w, env.scan) IN
    IF r.raised # "" \/ r.networks = <<>> THEN r.w
    ELSE send_notification(r.w, JsonDumps(r.networks))

\* The status line pushed before connecting, from the outcome of
\* "sudo iwlist scan | grep 'ESSID'"
StatusOutput(result) ==
    IF result.returncode = 0
    THEN IF Strip(result.stdout) = <<>> THEN NO_ESSIDS ELSE Strip(result.stdout)
    ELSE ERROR_PREFIX \o Strip(result.stderr)

\* f"sudo nmcli device wifi connect '{ssid}' password '{password}'"
ConnectCommand(ssid, password) ==
    CONNECT_PREFIX \o PyStr(ssid) \o CONNECT_MIDDLE \o PyStr(password) \o CONNECT_SUFFIX

\* How a block of the handler ended: the exception it raised ("" for none) and
\* whether it left through a return statement.
Outcome(w, raised, returned) == [w |-> w, raised |-> raised, returned |-> returned]

\* A faulty choice of message: the return code is not looked at.
ConnectMessage_unchecked(result) == MSG_CONNECTED

\* The message pushed for the outcome of the connect tool
ConnectMessage(result) ==
    IF result.returncode = 0 THEN MSG_CONNECTED ELSE MSG_FAILED

\* A faulty credential branch: it connects before it pushes the status line.
CredentialBranch_connect_first(w, ssid, password, env) ==
    LET scanned == Ran(w, STATUS_COMMAND)
        connected == Ran(scanned, ConnectCommand(ssid, password))
        told == send_notification(connected, StatusOutput(env.status))
    IN  IF env.status.raised # "" THEN Outcome(scanned, env.status.raised, FALSE)
        ELSE IF env.connect.raised # "" THEN Outcome(connected, env.connect.raised, FALSE)
        ELSE Outcome(send_notification(told, ConnectMessage(env.connect)), "", FALSE)

\* A faulty credential branch: it connects only when the status scan succeeded.
CredentialBranch_status_gate(w, ssid, password, env) ==
    LET scanned == Ran(w, STATUS_COMMAND)
        told == send_notification(scanned, StatusOutput(env.status))
        connected == Ran(told, ConnectCommand(ssid, password))
    IN  IF env.status.raised # "" THEN Outcome(scanned, env.status.raised, FALSE)
        ELSE IF env.status.returncode # 0 THEN Outcome(told, "", FALSE)
        ELSE IF env.connect.raised # "" THEN Outcome(connected, env.connect.raised, FALSE)
        ELSE Outcome(send_notification(connected, ConnectMessage(env.connect)), "", FALSE)

\* WriteValue with both ssid and password: status scan, push, connect, push.
\* An exception of either subprocess.run ends the try block where it is raised.
CredentialBranch(w, ssid, password, env) ==
    LET scanned == Ran(w, STATUS_COMMAND)
        told == send_notification(scanned, StatusOutput(env.status))
        connected == Ran(told, ConnectCommand(ssid, password))
    IN  IF env.status.raised # "" THEN Outcome(scanned, env.status.raised, FALSE)
        ELSE IF env.connect.raised # "" THEN Outcome(connected, env.connect.raised, FALSE)
        ELSE Outcome(send_notification(connected, ConnectMessage(env.connect)), "", FALSE)

\* A faulty test: only a command that lacks both fields is ignored.
MissingCredential_both(ssid, password) == ~Truthy(ssid) /\ ~Truthy(password)

\* if not ssid or not password
MissingCredential(ssid, password) == ~Truthy(ssid) \/ ~Truthy(password)

\* The try block of WriteValue: what it did, the exception it raised ("" for
\* none) and whether it left through a return statement.
TryBlock(w, value, env) ==
    LET dec == Decode(value) IN
    IF ~dec.ok THEN Outcome(w, "UnicodeDecodeError", FALSE)
    ELSE IF dec.text = SCAN_WIFI THEN Outcome(ScanBranch(w, env), "", TRUE)
    ELSE LET data == JsonLoads(dec.text) IN
    IF ~data.ok THEN Outcome(w, "JSONDecodeError", FALSE)
    ELSE IF ~HasGet(data.v) THEN Outcome(w, "AttributeError", FALSE)
    ELSE LET ssid == DictGet(data.v.items, KEY_SSID)
             password == DictGet(data.v.items, KEY_PASSWORD) IN
    IF MissingCredential(ssid, password) THEN Outcome(w, "", TRUE)
    ELSE CredentialBranch(w, ssid, password, env)

\* The classes that "except Exception" catches, among those raised here
EXCEPTION_CLASSES ==
    {"UnicodeDecodeError", "JSONDecodeError", "AttributeError", "FileNotFoundError",
     "Exception"}

\* A faulty handler: the "except Exception" clause is missing.
Handled_json_only(raised) == raised = "JSONDecodeError"

\* The except clauses of WriteValue: json.JSONDecodeError, then Exception
Handled(raised) == raised = "JSONDecodeError" \/ raised \in EXCEPTION_CLASSES

\* ------------------------------------------------------------ the environment

\* Hardware addresses and network names that a scan reports
ADDR_1 ==
    <<65, 65, 58, 66, 66, 58, 67, 67, 58, 68, 68, 58, 69, 69, 58, 48, 49>>
ADDR_2 ==
    <<48, 48, 58, 49, 49, 58, 50, 50, 58, 97, 97, 58, 98, 98, 58, 99, 99>>
ESSID_HOME == <<72, 111, 109, 101>>
ESSID_LAB == <<76, 97, 98>>

Addresses == {ADDR_1, ADDR_2}
Essids == {<<>>, ESSID_HOME, ESSID_LAB}

\* The most cells in one scan output
MaxBlocks == 3

Blocks == [address : Addresses, essid : Essids]

BlockSeqs(n) == UNION {[1 .. k -> Blocks] : k \in 0 .. n}

\* iwlist's report of cell number k: its Cell line and its ESSID line
RenderBlock(k, block) ==
    CELL_LIT \o (IF k < 10 THEN <<48>> ELSE <<>>) \o NatToText(k) \o ADDRESS_LIT
    \o block.address \o <<10, 32, 32>> \o ESSID_LIT \o block.essid \o <<34, 10>>

RECURSIVE RenderFrom(_, _)
RenderFrom(blocks, k) ==
    IF k > Len(blocks) THEN <<>>
    ELSE RenderBlock(k, blocks[k]) \o RenderFrom(blocks, k + 1)

\* The stdout of "iwlist wlan0 scan" that reports these cells
Render(blocks) == RenderFrom(blocks, 1)

\* The outcome of subprocess.run: a CompletedProcess, or an exception of
\* subprocess.run itself
Completed(returncode, stdout, stderr) ==
    [returncode |-> returncode, stdout |-> stdout, stderr |-> stderr, raised |-> ""]

Raises(class) == [returncode |-> 0, stdout |-> <<>>, stderr |-> <<>>, raised |-> class]

NotRun == Completed(0, <<>>, <<>>)

Block(address, essid) == [address |-> address, essid |-> essid]

\* Outcomes of the scan tool: sudo is not there to be run, a failure, no cell,
\* one cell, one cell without a name, the same name twice, two names
ScanRuns ==
    {Raises("FileNotFoundError"), Completed(1, <<>>, <<>>)} \cup
    {Completed(0, Render(bs), <<>>) : bs \in
        {<<>>,
         <<Block(ADDR_1, ESSID_HOME)>>,
         <<Block(ADDR_1, <<>>)>>,
         <<Block(ADDR_1, ESSID_HOME), Block(ADDR_2, ESSID_HOME)>>,
         <<Block(ADDR_2, ESSID_LAB), Block(ADDR_1, ESSID_HOME)>>}}

\* Outcomes of the status scan: names found, nothing found, failure, output
\* that text=True cannot decode
StatusRuns ==
    {Raises("UnicodeDecodeError"),
     Completed(0, <<32, 32>> \o ESSID_LIT \o ESSID_HOME \o <<34, 10>>, <<>>),
     Completed(0, <<10>>, <<>>),
     Completed(1, <<>>, <<110, 111, 32, 100, 101, 118, 10>>)}

\* Outcomes of the connect tool: success, failure, output that text=True cannot
\* decode
ConnectRuns ==
    {Completed(0, <<>>, <<>>), Completed(10, <<>>, <<69, 114, 114>>),
     Raises("UnicodeDecodeError")}

WriteInputs ==
    {W_SCAN, W_CRED, W_CRED_UTF8, W_CRED_NUM, W_BAD_UTF8, W_TRUNC_UTF8, W_NOT_JSON,
     W_NO_PASSWORD, W_EMPTY_SSID, W_NULL_PASSWORD, W_ARRAY, W_JSON_STRING,
     W_TRAILING, W_EMPTY}

Env(scan, status, connect) == [scan |-> scan, status |-> status, connect |-> connect]

NoEnv == Env(NotRun, NotRun, NotRun)

\* The commands a handler's trace says it ran
Commands(trace) == {trace[k].data : k \in {j \in 1 .. Len(trace) : trace[j].ev = "run"}}

\* The tool outcomes a write can meet: every outcome of each tool that the
\* handler runs for this value, and nothing to choose for a tool it does not
\* run; the connect tool is not run when the status scan raised.
Envs(value) ==
    LET ran == Commands(TryBlock(World(FALSE, <<>>), value, NoEnv).w.trace)
        connects == \E c \in ran : StartsWith(c, 1, CONNECT_PREFIX)
    IN  UNION {{Env(sc, st, co) :
                    co \in (IF connects /\ st.raised = "" THEN ConnectRuns ELSE {NotRun})} :
               sc \in (IF SCAN_COMMAND \in ran THEN ScanRuns ELSE {NotRun}),
               st \in (IF STATUS_COMMAND \in ran THEN StatusRuns ELSE {NotRun})}

\* ------------------------------------------------------------------ actions

\* The record of a host call: its name and argument, what it returned, whether
\* it ended in a fault reported to the host, what the handler did, and the tool
\* outcomes it met.
Call(op, arg, ret, fault, trace, env) ==
    [op |-> op, arg |-> arg, ret |-> ret, fault |-> fault, trace |-> trace, env |-> env]

\* No handler is on the dispatch thread
Idle ==
    [id |-> 0, value |-> <<>>, env |-> NoEnv, plan |-> <<>>, raised |-> "",
     returned |-> FALSE, trace |-> <<>>]

\* main() has made its two requests and runs the loop
Serving == [pc |-> "loop", app |-> "pending", ad |-> "pending", requests |-> <<1, 1>>]

\* The objects as the constructors leave them
InitObjects ==
    /\ services = Application
    /\ char_value = <<0>>
    /\ notifying = FALSE
    /\ notify_value = <<>>
    /\ last_sub = "none"
    /\ call = Call("none", <<>>, <<>>, FALSE, <<>>, NoEnv)

\* The loop with nothing delivered yet
InitLoop ==
    /\ inbox = <<>>
    /\ running = Idle
    /\ delivered = 0
    /\ log = <<>>

Init == InitObjects /\ InitLoop /\ startup = Serving

\* A faulty StartNotify: it flips the flag instead of setting it.
StartNotify_toggle ==
    /\ notifying' = ~notifying
    /\ last_sub' = "StartNotify"
    /\ call' = Call("StartNotify", <<>>, <<>>, FALSE, <<>>, NoEnv)
    /\ UNCHANGED <<services, char_value, notify_value>>

\* NotifyCharacteristic.StartNotify
StartNotify ==
    /\ notifying' = TRUE
    /\ last_sub' = "StartNotify"
    /\ call' = Call("StartNotify", <<>>, <<>>, FALSE, <<>>, NoEnv)
    /\ UNCHANGED <<services, char_value, notify_value>>

\* A faulty StopNotify: it also forgets the value last pushed.
StopNotify_clears ==
    /\ notifying' = FALSE
    /\ last_sub' = "StopNotify"
    /\ notify_value' = <<>>
    /\ call' = Call("StopNotify", <<>>, <<>>, FALSE, <<>>, NoEnv)
    /\ UNCHANGED <<services, char_value>>

\* NotifyCharacteristic.StopNotify
StopNotify ==
    /\ notifying' = FALSE
    /\ last_sub' = "StopNotify"
    /\ call' = Call("StopNotify", <<>>, <<>>, FALSE, <<>>, NoEnv)
    /\ UNCHANGED <<services, char_value, notify_value>>

\* MyCharacteristic.ReadValue
ReadValue ==
    /\ call' = Call("ReadValue", <<>>, char_value, FALSE, <<>>, NoEnv)
    /\ UNCHANGED <<services, char_value, notifying, notify_value, last_sub>>

\* Application.GetManagedObjects
GetManagedObjects ==
    /\ call' = Call("GetManagedObjects", <<>>, ManagedObjects(services, notify_value),
                    FALSE, <<>>, NoEnv)
    /\ UNCHANGED <<services, char_value, notifying, notify_value, last_sub>>

\* An exception that a handler lets through to the host, which gets it as an
\* error reply
Raise(class, args) == [exception |-> class, args |-> args]

\* What a handler hands to the host: a value, or the exception it let through
Returns(value) == [fault |-> FALSE, value |-> value]
Faults(exception) == [fault |-> TRUE, value |-> exception]

\* The interfaces and property names the host asks for
Interfaces == {GATT_CHRC_IFACE, GATT_SERVICE_IFACE}
PropertyNames == {"UUID", "Service", "Flags", "Value"}

\* A faulty Get: the interface asked for is not looked at.
PropertyGet_any_interface(ch, interface, prop) ==
    LET props == CharProperties(ch) IN
    IF prop \notin DOMAIN props.properties THEN Faults(Raise("KeyError", prop))
    ELSE Returns(props.properties[prop])

\* MyCharacteristic.Get: self.get_properties()[interface][prop]; a key that a
\* dict does not have raises KeyError.
PropertyGet(ch, interface, prop) ==
    LET props == CharProperties(ch) IN
    IF interface # props.interface THEN Faults(Raise("KeyError", interface))
    ELSE IF prop \notin DOMAIN props.properties THEN Faults(Raise("KeyError", prop))
    ELSE Returns(props.properties[prop])

\* MyCharacteristic.GetAll
PropertyGetAll(ch, interface) ==
    IF interface # GATT_CHRC_IFACE
    THEN Faults(Raise("DBusException", "Invalid interface"))
    ELSE Returns(CharProperties(ch).properties)

\* The writable characteristic, the first that MyService.__init__ adds
TheCharacteristic == services[1].characteristics[1]

\* MyCharacteristic.Get(interface, prop)
Get ==
    \E interface \in Interfaces, prop \in PropertyNames :
    \E r \in {PropertyGet(TheCharacteristic, interface, prop)} :
        /\ call' = Call("Get", <<interface, prop>>, r.value, r.fault, <<>>, NoEnv)
        /\ UNCHANGED <<services, char_value, notifying, notify_value, last_sub>>

\* MyCharacteristic.GetAll(interface)
GetAll ==
    \E interface \in Interfaces :
    \E r \in {PropertyGetAll(TheCharacteristic, interface)} :
        /\ call' = Call("GetAll", <<interface>>, r.value, r.fault, <<>>, NoEnv)
        /\ UNCHANGED <<services, char_value, notifying, notify_value, last_sub>>

\* MyCharacteristic.WriteValue(value, options) with the tools behaving as env:
\* the try block, the except clauses, and "self.value = value" when the handler
\* gets to its last line. An exception no clause catches is a fault to the host.
WriteValueWith(value, env) ==
    \E r \in {TryBlock(World(notifying, notify_value), value, env)} :
    LET handled == r.raised = "" \/ Handled(r.raised)
        stored == handled /\ ~r.returned
    IN  /\ notify_value' = r.w.value
        /\ notifying' = r.w.notifying
        /\ char_value' = IF stored THEN value ELSE char_value
        /\ call' = Call("WriteValue", value, <<>>, ~handled, r.w.trace, env)
        /\ UNCHANGED <<services, last_sub>>

WriteValue == \E value \in WriteInputs : \E env \in Envs(value) : WriteValueWith(value, env)

\* The host calls, each handled in one piece: the loop takes a call when no
\* handler is running and runs its handler to the end.
Next ==
    \/ StartNotify /\ UNCHANGED <<loopvars, startup>>
    \/ StopNotify /\ UNCHANGED <<loopvars, startup>>
    \/ ReadValue /\ UNCHANGED <<loopvars, startup>>
    \/ GetManagedObjects /\ UNCHANGED <<loopvars, startup>>
    \/ Get /\ UNCHANGED <<loopvars, startup>>
    \/ GetAll /\ UNCHANGED <<loopvars, startup>>
    \/ WriteValue /\ UNCHANGED <<loopvars, startup>>

Spec == Init /\ [][Next]_vars

\* ------------------------------------------------------------ the event loop
\* GLib.MainLoop().run(): one thread takes the delivered host calls one at a
\* time and runs each handler to its end. subprocess.run is a blocking call on
\* that thread: while the tool runs the handler waits in it and the loop takes
\* nothing.

\* The most host calls delivered in one run
MaxCalls == 3

\* The writes delivered here: a scan, a credential command, an invalid command
LoopWrites == {W_SCAN, W_CRED, W_NO_PASSWORD}

\* The calls without an argument delivered here
LoopCalls == {"StartNotify", "StopNotify", "ReadValue", "GetManagedObjects"}

Message(id, op, arg) == [id |-> id, op |-> op, arg |-> arg]

\* A faulty loop: it takes the call that arrived last.
TakeMessage_newest(q) == [m |-> q[Len(q)], rest |-> SubSeq(q, 1, Len(q) - 1)]

\* The loop takes the calls in the order of their arrival
TakeMessage(q) == [m |-> Head(q), rest |-> Tail(q)]

\* An event of a handler's trace with the number of the handler's call
Tag(id, e) ==
    [id |-> id, ev |-> e.ev, data |-> e.data, sub |-> e.sub, before |-> e.before,
     after |-> e.after, signals |-> e.signals]

TagAll(id, events) == [k \in 1 .. Len(events) |-> Tag(id, events[k])]

\* The host sends a call; it waits in the inbox whatever the loop is doing
DeliverCall(op, arg) ==
    /\ delivered < MaxCalls
    /\ delivered' = delivered + 1
    /\ inbox' = Append(inbox, Message(delivered + 1, op, arg))
    /\ UNCHANGED <<objvars, running, log>>

Deliver ==
    \/ \E op \in LoopCalls : DeliverCall(op, <<>>)
    \/ \E value \in LoopWrites : DeliverCall("WriteValue", value)

\* The loop takes a call whose handler runs no tool and runs the handler
HandleCall ==
    /\ running = Idle
    /\ inbox # <<>>
    /\ \E t \in {TakeMessage(inbox)} :
        /\ t.m.op # "WriteValue"
        /\ inbox' = t.rest
        /\ \/ t.m.op = "StartNotify" /\ StartNotify
           \/ t.m.op = "StopNotify" /\ StopNotify
           \/ t.m.op = "ReadValue" /\ ReadValue
           \/ t.m.op = "GetManagedObjects" /\ GetManagedObjects
    /\ UNCHANGED <<running, delivered, log>>

\* Every outcome of the three tools
AllEnvs == {Env(sc, st, co) : sc \in ScanRuns, st \in StatusRuns, co \in ConnectRuns}

\* The outcomes of the tools that a handler with this trace ran
Used(env, trace) ==
    Env(IF SCAN_COMMAND \in Commands(trace) THEN env.scan ELSE NotRun,
        IF STATUS_COMMAND \in Commands(trace) THEN env.status ELSE NotRun,
        IF \E c \in Commands(trace) : StartsWith(c, 1, CONNECT_PREFIX)
        THEN env.connect ELSE NotRun)

\* The pushes of a piece of the handler, made one after the other. Between two
\* subprocess.run calls, and after the last, the handler pushes at most once.
Pushes(w, messages) ==
    IF messages = <<>> THEN w ELSE send_notification(w, messages[1])

\* The position of the first subprocess.run after position n of a trace, or
\* one past its end
NextRun(full, n) ==
    LET later == {k \in n + 1 .. Len(full) : full[k].ev = "run"}
    IN  IF later = {} THEN Len(full) + 1 ELSE Least(later)

\* The messages pushed between positions n and q of a trace
Between(full, n, q) == [k \in 1 .. q - 1 - n |-> full[n + k].data]

\* The handler h, which has done h.trace of what it does (h.plan), goes on: to
\* its next subprocess.run, where it waits, or to its end, where it stores the
\* value unless it left through a return and hands the thread back.
Advance(h) ==
    \E q \in {NextRun(h.plan, Len(h.trace))} :
    \E messages \in {Between(h.plan, Len(h.trace), q)} :
    \E w \in {Pushes(World(notifying, notify_value), messages)} :
        /\ Len(messages) <= 1
        /\ notify_value' = w.value
        /\ notifying' = w.notifying
        /\ IF q <= Len(h.plan)
           THEN \E waiting \in {Ran(w, h.plan[q].data).trace} :
                /\ running' = [h EXCEPT !.trace = @ \o waiting]
                /\ log' = log \o TagAll(h.id, waiting)
                /\ UNCHANGED <<char_value, call>>
           ELSE LET handled == h.raised = "" \/ Handled(h.raised) IN
                /\ running' = Idle
                /\ log' = log \o TagAll(h.id, w.trace)
                /\ char_value' = IF handled /\ ~h.returned THEN h.value ELSE char_value
                /\ call' = Call("WriteValue", h.value, <<>>, ~handled,
                                h.trace \o w.trace, h.env)
        /\ UNCHANGED <<services, last_sub>>

\* The loop takes a write. The handler runs to its first subprocess.run and
\* waits there, or, with no tool to run, to its end.
BeginWrite ==
    /\ running = Idle
    /\ inbox # <<>>
    /\ \E t \in {TakeMessage(inbox)} :
        /\ t.m.op = "WriteValue"
        /\ inbox' = t.rest
        /\ \E env \in AllEnvs :
           \E r \in {TryBlock(World(notifying, notify_value), t.m.arg, env)} :
            Advance([id |-> t.m.id, value |-> t.m.arg, env |-> Used(env, r.w.trace),
                     plan |-> r.w.trace, raised |-> r.raised, returned |-> r.returned,
                     trace |-> <<>>])
    /\ UNCHANGED delivered

\* subprocess.run returns or raises, and the handler goes on
ToolReturns ==
    /\ running # Idle
    /\ Advance(running)
    /\ UNCHANGED <<inbox, delivered>>

NextLoop ==
    \/ Deliver /\ UNCHANGED startup
    \/ HandleCall /\ UNCHANGED startup
    \/ BeginWrite /\ UNCHANGED startup
    \/ ToolReturns /\ UNCHANGED startup

SpecLoop == Init /\ [][NextLoop]_vars

\* ------------------------------------------------------------------ start-up
\* main(): find the adapter, build the objects, ask BlueZ to register the
\* application and the advertisement, run the loop. The replies come to the
\* loop, which calls register_*_cb or register_*_error_cb.

\* main() entered
Starting == [pc |-> "find_adapter", app |-> "none", ad |-> "none", requests |-> <<0, 0>>]

\* adapter = find_adapter(bus); if not adapter: return
FindAdapter ==
    /\ startup.pc = "find_adapter"
    /\ \E found \in BOOLEAN :
        startup' = [startup EXCEPT !.pc = IF found THEN "register_app" ELSE "exited"]
    /\ UNCHANGED objvars

\* svc_m.RegisterApplication(..., reply_handler, error_handler): the request
\* is sent and main goes on
RegisterApplication ==
    /\ startup.pc = "register_app"
    /\ startup' = [startup EXCEPT !.pc = "register_ad", !.app = "pending",
                                  !.requests[1] = @ + 1]
    /\ UNCHANGED objvars

\* adv_m.RegisterAdvertisement(..., reply_handler, error_handler)
RegisterAdvertisement ==
    /\ startup.pc = "register_ad"
    /\ startup' = [startup EXCEPT !.pc = "loop", !.ad = "pending",
                                  !.requests[2] = @ + 1]
    /\ UNCHANGED objvars

\* register_app_cb: prints
register_app_cb(st) == [st EXCEPT !.app = "registered"]

\* A faulty register_app_error_cb: it ends the process.
register_app_error_cb_quits(st) == [st EXCEPT !.app = "failed", !.pc = "exited"]

\* register_app_error_cb: prints the error
register_app_error_cb(st) == [st EXCEPT !.app = "failed"]

\* register_ad_cb: prints
register_ad_cb(st) == [st EXCEPT !.ad = "registered"]

\* register_ad_error_cb: prints the error
register_ad_error_cb(st) == [st EXCEPT !.ad = "failed"]

\* BlueZ's reply to RegisterApplication comes and the loop calls its handler
ApplicationReply ==
    /\ startup.pc = "loop"
    /\ startup.app = "pending"
    /\ \/ startup' = register_app_cb(startup)
       \/ startup' = register_app_error_cb(startup)
    /\ UNCHANGED objvars

\* BlueZ's reply to RegisterAdvertisement comes and the loop calls its handler
AdvertisementReply ==
    /\ startup.pc = "loop"
    /\ startup.ad = "pending"
    /\ \/ startup' = register_ad_cb(startup)
       \/ startup' = register_ad_error_cb(startup)
    /\ UNCHANGED objvars

\* The loop runs and handles a host call: here the calls whose handlers run no
\* tool.
ServeCall ==
    /\ startup.pc = "loop"
    /\ \/ StartNotify
       \/ StopNotify
       \/ ReadValue
       \/ GetManagedObjects
       \/ Get
       \/ GetAll
    /\ UNCHANGED startup

InitMain == InitObjects /\ InitLoop /\ startup = Starting

NextMain ==
    \/ FindAdapter /\ UNCHANGED loopvars
    \/ RegisterApplication /\ UNCHANGED loopvars
    \/ RegisterAdvertisement /\ UNCHANGED loopvars
    \/ ApplicationReply /\ UNCHANGED loopvars
    \/ AdvertisementReply /\ UNCHANGED loopvars
    \/ ServeCall /\ UNCHANGED loopvars

SpecMain == InitMain /\ [][NextMain]_vars

\* ------------------------------------------- scan_networks on its own

\* What the scan tool reports: a return code and the cells of its output
ScanInputs == [returncode : {0, 1}, blocks : BlockSeqs(MaxBlocks)]

InitScan ==
    /\ InitLoop
    /\ startup = Serving
    /\ services = Application
    /\ char_value = <<0>>
    /\ notifying = FALSE
    /\ notify_value = <<>>
    /\ last_sub = "none"
    /\ call \in {Call("scan_input", input, <<>>, FALSE, <<>>, NoEnv) : input \in ScanInputs}

\* scan_networks() on the tool outcome drawn
ScanNetworks ==
    /\ call.op = "scan_input"
    /\ call' = Call("scan_networks", call.arg,
                    scan_networks(Completed(call.arg.returncode,
                                            Render(call.arg.blocks), <<>>)).networks,
                    FALSE, <<>>, NoEnv)
    /\ UNCHANGED <<services, char_value, notifying, notify_value, last_sub>>
    /\ UNCHANGED <<loopvars, startup>>

NextScan == ScanNetworks

SpecScan == InitScan /\ [][NextScan]_vars

\* ------------------------------------------------------------------ claims

\* The notifications pushed and the tools run by a handler, in order
PushesOf(trace) == SelectSeq(trace, LAMBDA e : e.ev = "push")
RunsOf(trace) == SelectSeq(trace, LAMBDA e : e.ev = "run")

\* The signals a handler emitted, in order
RECURSIVE SignalsOf(_)
SignalsOf(trace) ==
    IF trace = <<>> THEN <<>> ELSE Head(trace).signals \o SignalsOf(Tail(trace))

\* C1: a ReadValue issued immediately after a WriteValue(bytes) returns exactly
\* those bytes, whatever was written and whether or not dispatch succeeded.
\* The code returns from the SCAN_WIFI branch and from the missing-field branch
\* before it stores the value, so this fails.
C1_ReadReturnsLastWritten ==
    [][(call.op = "WriteValue" /\ call'.op = "ReadValue") => call'.ret = call.arg]_vars

\* C2: every push made by a handler, in every reachable state: unsubscribed, it
\* leaves the notify value unchanged and emits no signal; subscribed, the value
\* becomes exactly the UTF-8 bytes of the pushed message and exactly one
\* PropertiesChanged signal, for Value with those bytes, is emitted. The events
\* of a handler chain up (each starts from the value the one before left) and
\* the value the handler leaves is the characteristic's value.
C2_PushEffect ==
    LET t == call.trace IN
    /\ \A k \in 1 .. Len(t) :
        /\ t[k].sub = notifying
        /\ k > 1 => t[k].before = t[k - 1].after
        /\ t[k].ev = "run" => (t[k].after = t[k].before /\ t[k].signals = <<>>)
        /\ t[k].ev = "push" =>
            IF t[k].sub
            THEN /\ t[k].after = Encode(t[k].data)
                 /\ t[k].signals =
                        <<[interface |-> GATT_CHRC_IFACE,
                           changed |-> [Value |-> Encode(t[k].data)],
                           invalidated |-> <<>>]>>
            ELSE /\ t[k].after = t[k].before
                 /\ t[k].signals = <<>>
    /\ t # <<>> => notify_value = t[Len(t)].after

\* C2 happens: a subscribed push of the success marker changed the value to the
\* marker's UTF-8 bytes and emitted one signal.
C2_Witness ==
    /\ call.op = "WriteValue"
    /\ notifying
    /\ \E k \in 1 .. Len(call.trace) :
        /\ call.trace[k].ev = "push"
        /\ call.trace[k].data = MSG_CONNECTED
        /\ call.trace[k].before # MSG_CONNECTED_BYTES
        /\ call.trace[k].after = MSG_CONNECTED_BYTES
        /\ Len(call.trace[k].signals) = 1
    /\ notify_value = MSG_CONNECTED_BYTES

\* C3: the subscription state starts unsubscribed, and after any calls it is
\* what the last StartNotify/StopNotify call alone gives, whatever other calls
\* came before or after it.
C3_LastSubscriptionCallWins ==
    /\ last_sub = "none" => ~notifying
    /\ last_sub = "StartNotify" => notifying
    /\ last_sub = "StopNotify" => ~notifying

\* C3 happens: StartNotify, then later calls of other kinds, and the client is
\* still subscribed.
C3_Witness ==
    /\ last_sub = "StartNotify"
    /\ call.op = "WriteValue"
    /\ call.trace # <<>>
    /\ notifying

\* The writes that carry no command: bytes that are not UTF-8 (a stray byte, a
\* cut-off sequence), text that is neither SCAN_WIFI nor a JSON object (not
\* JSON, a JSON array, a JSON string, a JSON object followed by more text, the
\* empty text), and JSON objects without a non-empty ssid or password.
InvalidWrites ==
    {W_BAD_UTF8, W_TRUNC_UTF8, W_NOT_JSON, W_ARRAY, W_JSON_STRING, W_TRAILING, W_EMPTY,
     W_NO_PASSWORD, W_EMPTY_SSID, W_NULL_PASSWORD}

\* The writes that carry a credential command
CredentialWrites == {W_CRED, W_CRED_UTF8, W_CRED_NUM}

\* C4: a write that carries no command pushes no notification and runs neither
\* the scan tool nor the connect tool, subscribed or not.
C4_InvalidWriteDoesNothing ==
    (call.op = "WriteValue" /\ call.arg \in InvalidWrites) => call.trace = <<>>

\* C4 happens: a subscribed client wrote {"ssid":"x"} and nothing was done.
C4_Witness ==
    /\ call.op = "WriteValue"
    /\ call.arg = W_NO_PASSWORD
    /\ notifying
    /\ call.trace = <<>>

\* The positions in a trace of the connect-result pushes and of the runs of the
\* connect tool
ResultPushes(t) ==
    {k \in 1 .. Len(t) : t[k].ev = "push" /\ t[k].data \in {MSG_CONNECTED, MSG_FAILED}}
ConnectRunsIn(t) ==
    {k \in 1 .. Len(t) : t[k].ev = "run" /\ StartsWith(t[k].data, 1, CONNECT_PREFIX)}

\* The connect tool was run and reported a return code
ConnectReported == call.env.status.raised = "" /\ call.env.connect.raised = ""

\* C5: a credential command whose connect tool reports makes exactly one
\* connect-result push: the success marker when the tool reports success, the
\* failure marker when it reports failure; the push comes after the run of the
\* connect tool, and the WriteValue call returns without a fault in both cases.
C5_OneConnectResultPush ==
    (call.op = "WriteValue" /\ call.arg \in CredentialWrites /\ ConnectReported) =>
        LET t == call.trace IN
        /\ ~call.fault
        /\ Cardinality(ConnectRunsIn(t)) = 1
        /\ Cardinality(ResultPushes(t)) = 1
        /\ \A k \in ResultPushes(t) :
            /\ t[k].data = IF call.env.connect.returncode = 0
                           THEN MSG_CONNECTED ELSE MSG_FAILED
            /\ \A c \in ConnectRunsIn(t) : c < k

\* C5 happens: the connect tool failed, the failure marker was pushed last and
\* WriteValue returned normally.
C5_Witness ==
    /\ call.op = "WriteValue"
    /\ call.arg = W_CRED
    /\ ConnectReported
    /\ call.env.connect.returncode # 0
    /\ ~call.fault
    /\ call.trace[Len(call.trace)].ev = "push"
    /\ call.trace[Len(call.trace)].data = MSG_FAILED
    /\ notify_value = MSG_FAILED_BYTES

\* "sudo nmcli device wifi connect 'Home' password 'secret'"
CONNECT_HOME_COMMAND ==
    <<115, 117, 100, 111, 32, 110, 109, 99, 108, 105, 32, 100, 101, 118, 105, 99, 101,
    32, 119, 105, 102, 105, 32, 99, 111, 110, 110, 101, 99, 116, 32, 39, 72, 111, 109,
    101, 39, 32, 112, 97, 115, 115, 119, 111, 114, 100, 32, 39, 115, 101, 99, 114, 101,
    116, 39>>

\* C6: one credential command does this, in this order, as far as it gets: the
\* status scan, the push of the status line, the run of the connect tool, the
\* push of the connect result (all four when both tools report); so at most two
\* notifications, the connect tool never before the status push and the
\* connect result never before the status push.
C6_CredentialOrder ==
    (call.op = "WriteValue" /\ call.arg \in CredentialWrites) =>
        LET t == call.trace
            n == Len(t)
        IN
        /\ n = IF call.env.status.raised # "" THEN 1
                ELSE IF call.env.connect.raised # "" THEN 3 ELSE 4
        /\ [k \in 1 .. n |-> t[k].ev] = SubSeq(<<"run", "push", "run", "push">>, 1, n)
        /\ t[1].data = STATUS_COMMAND
        /\ n >= 2 => /\ t[2].data = StatusOutput(call.env.status)
                     /\ t[2].data \notin {MSG_CONNECTED, MSG_FAILED}
        /\ n >= 3 => StartsWith(t[3].data, 1, CONNECT_PREFIX)
        /\ n >= 4 => t[4].data \in {MSG_CONNECTED, MSG_FAILED}
        /\ Len(PushesOf(t)) <= 2
        /\ Len(SignalsOf(t)) <= 2

\* C6 happens: a subscribed client's credential command gave two notifications,
\* with the connect tool run between them on the written ssid and password.
C6_Witness ==
    /\ call.op = "WriteValue"
    /\ call.arg = W_CRED
    /\ notifying
    /\ Len(SignalsOf(call.trace)) = 2
    /\ call.trace[2].data = NO_ESSIDS
    /\ call.trace[3].data = CONNECT_HOME_COMMAND
    /\ call.trace[4].data = MSG_CONNECTED

\* '[{"address": "AA:BB:CC:DD:EE:01", "essid": "Home"}]'
SCAN_JSON_HOME ==
    <<91, 123, 34, 97, 100, 100, 114, 101, 115, 115, 34, 58, 32, 34, 65, 65, 58, 66, 66,
    58, 67, 67, 58, 68, 68, 58, 69, 69, 58, 48, 49, 34, 44, 32, 34, 101, 115, 115, 105,
    100, 34, 58, 32, 34, 72, 111, 109, 101, 34, 125, 93>>

\* C7: a SCAN_WIFI write runs the scan tool once; when the tool succeeds and the
\* parsed list is not empty, exactly one push is made, of the JSON encoding of
\* that list; when the tool fails or the list is empty no push is made and the
\* notify value is what it was.
C7_ScanPush ==
    (call.op = "WriteValue" /\ call.arg = W_SCAN) =>
        LET t == call.trace
            run == call.env.scan
            succeeded == run.raised = "" /\ run.returncode = 0
            parsed == IF succeeded THEN ParseScan(run.stdout) ELSE <<>>
        IN  /\ Len(RunsOf(t)) = 1
            /\ t[1].ev = "run"
            /\ t[1].data = SCAN_COMMAND
            /\ IF succeeded /\ parsed # <<>>
               THEN /\ Len(PushesOf(t)) = 1
                    /\ PushesOf(t)[1].data = JsonDumps(parsed)
               ELSE /\ PushesOf(t) = <<>>
                    /\ notify_value = t[1].before

\* C7 happens: the scan reported Home twice; a subscribed client got the one
\* record of the first cell as a JSON array.
C7_Witness ==
    /\ call.op = "WriteValue"
    /\ call.arg = W_SCAN
    /\ notifying
    /\ Len(EssidFindAll(call.env.scan.stdout, 1, <<>>)) = 2
    /\ Len(PushesOf(call.trace)) = 1
    /\ PushesOf(call.trace)[1].data = SCAN_JSON_HOME
    /\ notify_value = SCAN_JSON_HOME

\* C9: WriteValue never ends in a fault to the host, whatever bytes are written
\* and whatever the scan tool, the status scan and the connect tool do; after
\* it the server takes the next host call.
C9_WriteNeverFaults ==
    call.op = "WriteValue" => (~call.fault /\ ENABLED ReadValue /\ ENABLED WriteValue)

\* C9 happens: the JSON array [1], which has no get method, was written; the
\* error was absorbed and the write returned normally.
C9_Witness ==
    /\ call.op = "WriteValue"
    /\ call.arg = W_ARRAY
    /\ ~call.fault
    /\ call.trace = <<>>

\* The positions of the blocks to keep: a non-empty essid that no earlier block
\* has
Kept(blocks) ==
    {k \in 1 .. Len(blocks) :
        /\ blocks[k].essid # <<>>
        /\ \A j \in 1 .. k - 1 : blocks[j].essid # blocks[k].essid}

\* The n-th smallest element of a set of positions
Nth(S, n) == CHOOSE k \in S : Cardinality({j \in S : j < k}) = n - 1

\* The reference result: the first block of each distinct non-empty essid, in
\* the order of first appearance
FirstSeen(blocks) ==
    [n \in 1 .. Cardinality(Kept(blocks)) |-> blocks[Nth(Kept(blocks), n)]]

\* C8: for every scan output made of (address, essid) blocks, the list that
\* scan_networks returns is the reference list: essids pairwise distinct and not
\* empty, each with the address of the first block that has it, in the order of
\* first appearance.
C8_ParserKeepsFirstSeen ==
    (call.op = "scan_networks" /\ call.arg.returncode = 0) =>
        LET nets == call.ret IN
        /\ nets = FirstSeen(call.arg.blocks)
        /\ \A i \in 1 .. Len(nets) : nets[i].essid # <<>>
        /\ \A i, j \in 1 .. Len(nets) : i # j => nets[i].essid # nets[j].essid

\* C8 happens: three cells, the first two with the same name and different
\* addresses, the third without a name, gave the one record of the first cell.
C8_Witness ==
    /\ call.op = "scan_networks"
    /\ call.arg.returncode = 0
    /\ call.arg.blocks =
        <<Block(ADDR_1, ESSID_HOME), Block(ADDR_2, ESSID_HOME), Block(ADDR_2, <<>>)>>
    /\ call.ret = <<[address |-> ADDR_1, essid |-> ESSID_HOME]>>

\* The paths of the services and characteristics that were declared
DeclaredPaths ==
    {services[i].path : i \in 1 .. Len(services)} \cup
    UNION {{services[i].characteristics[j].path :
                j \in 1 .. Len(services[i].characteristics)} :
           i \in 1 .. Len(services)}

\* What a GetManagedObjects result must hold: exactly one entry for each
\* declared path, nothing else, so no entry for the application root and no
\* path twice; a service's entry is on the service interface, a
\* characteristic's on the characteristic interface.
ManagedEntriesOK ==
    call.op = "GetManagedObjects" =>
        LET m == call.ret IN
        /\ \A p \in DeclaredPaths : Cardinality({k \in 1 .. Len(m) : m[k][1] = p}) = 1
        /\ \A k \in 1 .. Len(m) : m[k][1] \in DeclaredPaths /\ m[k][1] # PATH_BASE
        /\ \A k1, k2 \in 1 .. Len(m) : k1 # k2 => m[k1][1] # m[k2][1]
        /\ Len(m) = Cardinality(DeclaredPaths)
        /\ \A i \in 1 .. Len(services) :
            /\ \E k \in 1 .. Len(m) :
                /\ m[k][1] = services[i].path
                /\ m[k][2].interface = GATT_SERVICE_IFACE
            /\ \A j \in 1 .. Len(services[i].characteristics) :
                \E k \in 1 .. Len(m) :
                    /\ m[k][1] = services[i].characteristics[j].path
                    /\ m[k][2].interface = GATT_CHRC_IFACE

\* C10: every GetManagedObjects result holds exactly one entry for each declared
\* service and each of its characteristics of both kinds, none for the
\* application root, under pairwise distinct paths; and a call that follows
\* another with nothing in between returns the same result.
C10_ManagedObjects ==
    [][/\ ManagedEntriesOK'
       /\ (call.op = "GetManagedObjects" /\ call'.op = "GetManagedObjects")
            => call'.ret = call.ret]_vars

\* C10 happens: GetManagedObjects was called after a notification had been
\* delivered and returned three entries, the two characteristics among them.
C10_Witness ==
    /\ call.op = "GetManagedObjects"
    /\ notify_value # <<>>
    /\ Len(call.ret) = 3
    /\ {call.ret[k][1][Len(call.ret[k][1])] : k \in 1 .. 3}
            = {"service0", "char0", "char_notify1"}

\* C11: while a tool started by a write is in flight, a call other than a write
\* that waits in the inbox is taken and answered; the waiting tool holds back
\* only the command that started it.
C11_HungToolBlocksOnlyItsCommand ==
    (running # Idle /\ inbox # <<>> /\ Head(inbox).op # "WriteValue")
        => ENABLED HandleCall

\* The numbers of the calls whose handlers have done something
LoggedIds == {log[k].id : k \in 1 .. Len(log)}

\* C12: the handlers' tool runs and pushes come in the order in which the host
\* delivered their writes: what an earlier write causes is all before what a
\* later write causes, and a write that waits has caused nothing yet, nor has
\* any write delivered after it.
C12_WritesInDeliveryOrder ==
    /\ \A i, j \in 1 .. Len(log) : i < j => log[i].id <= log[j].id
    /\ \A k \in 1 .. Len(inbox) : \A id \in LoggedIds : id < inbox[k].id
    /\ running # Idle => \A id \in LoggedIds : id <= running.id

\* C12 happens: the first write's connect tool is in flight after its status
\* push, and a second write, delivered after it, waits in the inbox.
C12_Witness ==
    /\ running # Idle
    /\ running.value = W_CRED
    /\ Len(running.trace) = 3
    /\ inbox # <<>>
    /\ Head(inbox).op = "WriteValue"
    /\ Head(inbox).id > running.id

\* The property map that GetManagedObjects gives for the writable characteristic
ManagedCharacteristic ==
    LET m == ManagedObjects(services, notify_value)
        k == CHOOSE k \in 1 .. Len(m) : m[k][1] = TheCharacteristic.path
    IN  m[k][2]

\* The fault of a lookup with an interface that the characteristic does not
\* declare: GetAll's 'Invalid interface', Get's failed lookup of the interface
UnknownInterface(exception, interface) ==
    \/ exception = Raise("DBusException", "Invalid interface")
    \/ exception = Raise("KeyError", interface)

\* The objects' state that a handler can write
ObjectState == <<services, char_value, notifying, notify_value, last_sub>>

\* C13: Get and GetAll on the writable characteristic change no state; with an
\* interface other than the declared one they end in the unknown-interface
\* fault; with the declared one GetAll returns the property map and Get the
\* map's value of the property (a fault for a property the map does not hold).
C13_PropertyAccess ==
    [][call'.op \in {"Get", "GetAll"} =>
        LET interface == call'.arg[1]
            declared == ManagedCharacteristic
        IN  /\ ObjectState' = ObjectState
            /\ interface # declared.interface =>
                call'.fault /\ UnknownInterface(call'.ret, interface)
            /\ (interface = declared.interface /\ call'.op = "GetAll") =>
                ~call'.fault /\ call'.ret = declared.properties
            /\ (interface = declared.interface /\ call'.op = "Get") =>
                IF call'.arg[2] \in DOMAIN declared.properties
                THEN ~call'.fault /\ call'.ret = declared.properties[call'.arg[2]]
                ELSE call'.fault]_vars

\* C13 happens: after a write was stored, Get was called with the service
\* interface and faulted.
C13_Witness ==
    /\ call.op = "Get"
    /\ call.arg = <<GATT_SERVICE_IFACE, "UUID">>
    /\ call.fault
    /\ call.ret = Raise("KeyError", GATT_SERVICE_IFACE)
    /\ char_value = W_CRED

\* The properties under a path in a GetManagedObjects result
EntryOf(m, path) == m[CHOOSE k \in 1 .. Len(m) : m[k][1] = path][2].properties

\* C14: the property map of the writable characteristic, which is flagged read,
\* holds a Value that is the last-written bytes, in what GetManagedObjects
\* returns and in what GetAll returns.
C14_ReadableValueExposed ==
    /\ call.op = "GetManagedObjects" =>
        LET properties == EntryOf(call.ret, TheCharacteristic.path) IN
        /\ "read" \in {TheCharacteristic.flags[k] : k \in 1 .. Len(TheCharacteristic.flags)}
        /\ "Value" \in DOMAIN properties
        /\ properties.Value = char_value
    /\ (call.op = "GetAll" /\ ~call.fault) =>
        /\ "Value" \in DOMAIN call.ret
        /\ call.ret.Value = char_value

\* A registration got its answer
Answered(outcome) == outcome \in {"registered", "failed"}

\* C15: each registration is requested once and never again; whichever way the
\* two requests are answered, the loop has been started, stays started and
\* handles host calls.
C15_RegistrationFailureNotFatal ==
    /\ [](/\ startup.requests[1] <= 1
          /\ startup.requests[2] <= 1
          /\ startup.pc = "loop" => startup.requests = <<1, 1>>
          /\ (Answered(startup.app) \/ Answered(startup.ad)) =>
                (startup.pc = "loop" /\ ENABLED ServeCall))
    /\ [][/\ startup.pc = "loop" => startup'.pc = "loop"
          /\ Answered(startup.app) => startup'.app = startup.app
          /\ Answered(startup.ad) => startup'.ad = startup.ad]_vars

\* C15 happens: both registrations failed, and after that the loop handled a
\* ReadValue.
C15_Witness ==
    /\ startup.app = "failed"
    /\ startup.ad = "failed"
    /\ startup.pc = "loop"
    /\ startup.requests = <<1, 1>>
    /\ call.op = "ReadValue"

\* "sudo nmcli device wifi connect 'Caf\u00e9' password 'p w'"
CONNECT_CAFE_COMMAND ==
    <<115, 117, 100, 111, 32, 110, 109, 99, 108, 105, 32, 100, 101, 118, 105, 99, 101,
    32, 119, 105, 102, 105, 32, 99, 111, 110, 110, 101, 99, 116, 32, 39, 67, 97, 102,
    233, 39, 32, 112, 97, 115, 115, 119, 111, 114, 100, 32, 39, 112, 32, 119, 39>>

\* "sudo nmcli device wifi connect '7' password 'True'"
CONNECT_SEVEN_COMMAND ==
    <<115, 117, 100, 111, 32, 110, 109, 99, 108, 105, 32, 100, 101, 118, 105, 99, 101,
    32, 119, 105, 102, 105, 32, 99, 111, 110, 110, 101, 99, 116, 32, 39, 55, 39, 32,
    112, 97, 115, 115, 119, 111, 114, 100, 32, 39, 84, 114, 117, 101, 39>>

\* The command line of the connect tool for each credential command written
ConnectCommandFor(value) ==
    IF value = W_CRED THEN CONNECT_HOME_COMMAND
    ELSE IF value = W_CRED_UTF8 THEN CONNECT_CAFE_COMMAND
    ELSE CONNECT_SEVEN_COMMAND

SubscribedPushes == {k \in 1 .. Len(log) : log[k].ev = "push" /\ log[k].sub}

\* C17: every push made while subscribed emits exactly one change notification
\* for Value, whether or not the pushed bytes are the value that is already
\* there, and nothing else emits one: over the whole run there are as many
\* notifications as pushes made while subscribed.
C17_NoDedupAtNotify ==
    /\ \A k \in SubscribedPushes :
        /\ Len(log[k].signals) = 1
        /\ log[k].signals[1].changed.Value = log[k].after
    /\ \A k \in (1 .. Len(log)) \ SubscribedPushes : log[k].signals = <<>>
    /\ Len(SignalsOf(log)) = Cardinality(SubscribedPushes)

\* C17 happens: two scans in a row found the same networks; the second push
\* carried the bytes that were already the value and was notified again.
C17_Witness ==
    \E k \in SubscribedPushes :
        /\ log[k].before = log[k].after
        /\ log[k].before # <<>>
        /\ Len(log[k].signals) = 1
        /\ Len(SignalsOf(log)) = 2

\* The notify characteristic, the second that MyService.__init__ adds
TheNotifyCharacteristic == services[1].characteristics[2]

\* The bytes of the most recent push made while subscribed, empty if there was
\* none
LastPushed ==
    IF SubscribedPushes = {} THEN <<>>
    ELSE Encode(log[CHOOSE k \in SubscribedPushes : \A j \in SubscribedPushes : j <= k].data)

\* C18: when the loop handles a GetManagedObjects call, the Value in the notify
\* characteristic's entry is the characteristic's value at that moment: the
\* bytes of the most recent push made while subscribed, empty if there was none.
C18_ManagedValueIsLive ==
    [][(inbox # <<>> /\ Head(inbox).op = "GetManagedObjects" /\ inbox' = Tail(inbox)) =>
        /\ call'.op = "GetManagedObjects"
        /\ EntryOf(call'.ret, TheNotifyCharacteristic.path).Value = LastPushed
        /\ EntryOf(call'.ret, TheNotifyCharacteristic.path).Value = notify_value]_vars

\* C18 happens: a subscribed client's scan was pushed, and the GetManagedObjects
\* call that came after it shows the pushed bytes.
C18_Witness ==
    /\ call.op = "GetManagedObjects"
    /\ running = Idle
    /\ SubscribedPushes # {}
    /\ LastPushed = SCAN_JSON_HOME
    /\ EntryOf(call.ret, TheNotifyCharacteristic.path).Value = SCAN_JSON_HOME

\* The host calls that only observe
ReadOnlyCalls == {"ReadValue", "GetManagedObjects", "Get", "GetAll"}

\* A push of the handled call that found a subscriber and replaced the value
\* with the bytes the next state holds
PushedTo(trace, bytes) ==
    \E k \in DOMAIN trace :
        /\ trace[k].ev = "push"
        /\ trace[k].sub
        /\ trace[k].after = bytes

\* C19: frame conditions of the host calls. StartNotify and StopNotify change
\* the subscription state only, neither the notify value nor the last-written
\* value; WriteValue never changes the subscription state; ReadValue,
\* GetManagedObjects, Get and GetAll change no state; the notify value changes
\* only in a WriteValue, with a subscriber, through one of its pushes.
C19_FrameConditions ==
    [][/\ call'.op \in {"StartNotify", "StopNotify"} =>
            /\ notify_value' = notify_value
            /\ char_value' = char_value
            /\ services' = services
            /\ notifying' = (call'.op = "StartNotify")
       /\ call'.op = "WriteValue" =>
            /\ notifying' = notifying
            /\ last_sub' = last_sub
            /\ services' = services
       /\ call'.op \in ReadOnlyCalls =>
            /\ services' = services
            /\ char_value' = char_value
            /\ notifying' = notifying
            /\ notify_value' = notify_value
            /\ last_sub' = last_sub
       /\ notify_value' # notify_value =>
            /\ call'.op = "WriteValue"
            /\ notifying
            /\ PushedTo(call'.trace, notify_value')]_vars

\* C19 happens: a write stored a value and pushed to a subscriber, and the
\* StopNotify that followed left both values in place.
C19_Witness ==
    /\ call.op = "StopNotify"
    /\ ~notifying
    /\ notify_value # <<>>
    /\ char_value # <<>>

\* path is a strict descendant of root: root's segments and at least one more
StrictDescendant(path, root) ==
    /\ Len(path) > Len(root)
    /\ SubSeq(path, 1, Len(root)) = root

\* The items of a GetManagedObjects result that carry the given interface, in
\* the order of the result
ItemsOf(m, interface) == SelectSeq(m, LAMBDA item : item[2].interface = interface)

\* The paths of the characteristic items that name the given service, in the
\* order of the result
ChildPaths(m, service_path) ==
    LET children == SelectSeq(ItemsOf(m, GATT_CHRC_IFACE),
                        LAMBDA item : item[2].properties.Service = service_path)
    IN  [k \in 1 .. Len(children) |-> children[k][1]]

\* What GetManagedObjects returns in the current state
ExposedTree == ManagedObjects(services, notify_value)

\* The paths the objects were given at construction: each service's, with its
\* characteristics'
ObjectPaths ==
    [s \in 1 .. Len(services) |->
        <<services[s].path,
          [k \in 1 .. Len(services[s].characteristics) |->
              services[s].characteristics[k].path]>>]

\* C20: the exposed object tree is referentially consistent in every state. A
\* service's Characteristics lists, in insertion order, exactly the paths of
\* the characteristic entries of GetManagedObjects; each characteristic's
\* Service is the path of an exposed service, the one that owns it; each
\* characteristic path is a strict descendant of its service's path and each
\* service path a strict descendant of the application's root path; and no path
\* ever changes.
C20_TreeConsistent ==
    /\ [](LET m == ExposedTree
              service_items == ItemsOf(m, GATT_SERVICE_IFACE)
              chrc_items == ItemsOf(m, GATT_CHRC_IFACE)
          IN  /\ Len(service_items) + Len(chrc_items) = Len(m)
              /\ \A i, j \in 1 .. Len(m) : m[i][1] = m[j][1] => i = j
              /\ \A k \in 1 .. Len(service_items) :
                    /\ service_items[k][2].properties.Characteristics =
                           ChildPaths(m, service_items[k][1])
                    /\ StrictDescendant(service_items[k][1], PATH_BASE)
              /\ \A k \in 1 .. Len(chrc_items) :
                    /\ \E s \in 1 .. Len(service_items) :
                           service_items[s][1] = chrc_items[k][2].properties.Service
                    /\ StrictDescendant(chrc_items[k][1],
                                        chrc_items[k][2].properties.Service)
              /\ {m[k][1] : k \in 1 .. Len(m)} =
                     UNION {{ObjectPaths[s][1]} \cup
                            {ObjectPaths[s][2][k] : k \in 1 .. Len(ObjectPaths[s][2])} :
                            s \in 1 .. Len(ObjectPaths)}
              /\ \A s \in 1 .. Len(services) :
                    /\ ServiceProperties(services[s]).properties.Characteristics =
                           ChildPaths(m, services[s].path)
                    /\ \A k \in 1 .. Len(services[s].characteristics) :
                           services[s].characteristics[k].service = services[s].path)
    /\ [][ObjectPaths' = ObjectPaths]_vars

\* C20 happens: after a write and a push changed both values, GetManagedObjects
\* returned the service with its two characteristics.
C20_Witness ==
    /\ call.op = "GetManagedObjects"
    /\ call.ret = ExposedTree
    /\ Len(ItemsOf(call.ret, GATT_CHRC_IFACE)) = 2
    /\ Len(ItemsOf(call.ret, GATT_SERVICE_IFACE)) = 1
    /\ notify_value # <<>>
    /\ char_value # <<0>>

\* The subscription state was the same at every event of the handled call: no
\* StartNotify or StopNotify took effect while the handler ran
SubscriptionFixedDuring(trace) ==
    \A k \in DOMAIN trace : trace[k].sub = trace[1].sub

\* A handled credential write kept the subscription state from its first tool
\* run to its last event
CredentialWriteUninterrupted ==
    (call.op = "WriteValue" /\ call.arg \in CredentialWrites) =>
        SubscriptionFixedDuring(call.trace)

\* C21: a credential write runs to completion before any other host call is
\* handled, so the subscription state cannot change between its status push and
\* its connect-result push, and the write emits no notification when no client
\* was subscribed at the write and exactly two when one was, never exactly one.
C21_CredentialSignalsAllOrNone ==
    (call.op = "WriteValue" /\ call.arg \in CredentialWrites) =>
        /\ SubscriptionFixedDuring(call.trace)
        /\ Len(SignalsOf(call.trace)) = IF call.trace[1].sub THEN 2 ELSE 0

====
